---- MODULE Spec2Model ----
(***************************************************************************)
(* shout_and_shoot.py: one MicrophoneListener per audio device (a capture  *)
(* thread that sets shoot_requested / time_of_last_shoot_request), the     *)
(* MicrophoneHandler loop (run) that retires dead listeners, discovers new *)
(* devices, debounces and fires, and the two GPIO button callbacks         *)
(* (manual_shoot_request, poweroff) that RPi.GPIO runs on its own thread.  *)
(*                                                                         *)
(* The clock counts half seconds: time_difference_between_shots = 2.0 s is *)
(* 4 units and the 0.5 s pulse of fire() is 1 unit.  The 0.2 s poll sleep  *)
(* is shorter than one unit, so it is a step at which the clock may or may *)
(* not advance.                                                            *)
(***************************************************************************)
EXTENDS Integers, Sequences, FiniteSets, TLC

\* ---------------------------------------------------------------- bounds
MaxObjs == 2        \* MicrophoneListener objects constructed in one run
MaxSnapLen == 2     \* devices listed by one PvRecorder.get_audio_devices()
MaxAdvance == 3     \* half seconds the clock advances after start-up

\* ------------------------------------------------------ program constants
time_difference_between_shots == 4   \* 2.0 s in half seconds
PulseHold == 1                       \* time.sleep(0.5) in fire()

StartTime == time_difference_between_shots
MaxTime == StartTime + MaxAdvance

RealNames == {"micA", "micB"}
MonitorNames == {"Monitor of micA"}
WellKnownNames == {"Discard all samples (playback) or generate zero samples (capture)",
                   "JACK Audio Connection Kit", "PulseAudio Sound Server"}
DeviceNames == RealNames \cup MonitorNames \cup {"PulseAudio Sound Server"}

\* A faulty filter that forgets the 'Monitor of' test of line 249.
IsVirtualWellKnownOnly(name) == name \in WellKnownNames

\* line 249: the devices check_for_new_microphones never listens to
IsVirtual(name) == (name \in MonitorNames) \/ (name \in WellKnownNames)

Snapshots == UNION {[1..n -> DeviceNames] : n \in 0..MaxSnapLen}
Outcomes == {"ok", "no_porcupine", "no_recorder"}

VARIABLES
  now,                                \* time.time()
  output_path,                        \* TRUE when --output_path is given
  heap,                               \* the MicrophoneListener objects, by identity
  microphones,                        \* self.microphones: a list of object identities
  connected_microphones,              \* the local of check_for_new_microphones
  manual_shoot_request,
  time_of_last_manual_shoot_request,
  manual_pressed_at,                  \* the clock when the pending manual request was raised
                                      \* (0 while none is pending)
  time_of_last_shoot_request,
  pc, i,                              \* position of MicrophoneHandler.run and its loop index
  cb, j,                              \* position of the GPIO callback thread and poweroff's index
  po_list, po_same,                   \* the list object poweroff iterates over
  pin_shoot, pin_led_microphone,      \* GPIO output levels (pin_led_shoot follows pin_shoot)
  gpio_cleanups,                      \* calls of GPIO.cleanup()
  fires_this_tick,                    \* calls of fire() since the top of the while loop
  first_pending,                      \* the tracked listeners that were pending at the top of the
                                      \* current iteration, when no shot had been fired before it
  dead_at_top                         \* the tracked listeners (identity and device name) that were not
                                      \* running at the top of the current iteration, until its refresh ends

vars == <<now, output_path, heap, microphones, connected_microphones,
          manual_shoot_request, time_of_last_manual_shoot_request, manual_pressed_at,
          time_of_last_shoot_request, pc, i, cb, j, po_list, po_same,
          pin_shoot, pin_led_microphone, gpio_cleanups, fires_this_tick, first_pending,
          dead_at_top>>

handlerVars == <<microphones, connected_microphones, time_of_last_shoot_request, pc, i,
                 pin_led_microphone, fires_this_tick, first_pending, dead_at_top>>
callbackVars == <<cb, j, po_list, po_same>>
manualVars == <<manual_shoot_request, time_of_last_manual_shoot_request, manual_pressed_at>>

Abs(x) == IF x < 0 THEN -x ELSE x

Range(s) == {s[k] : k \in 1..Len(s)}

\* ------------------------------------------------------ MicrophoneListener

\* __init__ (lines 42-77): the object as the constructor leaves it.  "ok": the
\* recorder started and the capture thread runs.  Otherwise the except branch ran
\* stop_listening: running is False and no thread exists; res is "none" when
\* pvporcupine.create failed and "deleted" when porcupine was created and then
\* deleted because the recorder failed.
NewListener(name, index, outcome) ==
  [input_device_name |-> name,
   input_device_index |-> index,
   running |-> (outcome = "ok"),
   shoot_requested |-> FALSE,
   time_of_last_shoot_request |-> 0,
   th |-> IF outcome = "ok" THEN "run" ELSE "none",
   res |-> CASE outcome = "ok" -> "live"
             [] outcome = "no_porcupine" -> "none"
             [] OTHER -> "deleted",
   frames |-> FALSE,
   writes |-> 0]

\* a listener that nothing refers to any more and whose thread has ended:
\* the object is gone and its place in the heap is free
Freed ==
  [input_device_name |-> "-",
   input_device_index |-> 0,
   running |-> FALSE,
   shoot_requested |-> FALSE,
   time_of_last_shoot_request |-> 0,
   th |-> "freed",
   res |-> "none",
   frames |-> FALSE,
   writes |-> 0]

ThreadExited(o) == heap[o].th \in {"none", "done"}

\* run, line 80: the while condition is read False and the thread ends
CaptureExit(o) ==
  /\ heap[o].th = "run"
  /\ ~heap[o].running
  /\ heap' = [heap EXCEPT ![o].th = "done"]
  /\ UNCHANGED <<now, output_path, handlerVars, callbackVars, manualVars,
                 pin_shoot, gpio_cleanups>>

\* run, lines 81-87: recorder.read() raises (the device is gone, or the recorder
\* was deleted by a stop_listening): running = False and the loop breaks
CaptureReadFails(o) ==
  /\ heap[o].th = "run"
  /\ heap[o].running
  /\ heap' = [heap EXCEPT ![o].running = FALSE, ![o].th = "done"]
  /\ UNCHANGED <<now, output_path, handlerVars, callbackVars, manualVars,
                 pin_shoot, gpio_cleanups>>

\* run, lines 82-91: a frame is read and porcupine.process finds no keyword
CaptureFrame(o) ==
  /\ heap[o].th = "run"
  /\ heap[o].running
  /\ heap[o].res = "live"
  /\ heap' = [heap EXCEPT ![o].frames = output_path]
  /\ UNCHANGED <<now, output_path, handlerVars, callbackVars, manualVars,
                 pin_shoot, gpio_cleanups>>

\* run, lines 82-92: a frame is read, the keyword is detected and
\* shoot_requested is set; the timestamp is the next statement.  "stamp" is
\* the position before line 93 when the flag was False before line 92, and
\* "restamp" when it was already True.
CaptureDetect(o) ==
  /\ heap[o].th = "run"
  /\ heap[o].running
  /\ heap[o].res = "live"
  /\ heap' = [heap EXCEPT ![o].frames = output_path,
                          ![o].shoot_requested = TRUE,
                          ![o].th = IF heap[o].shoot_requested THEN "restamp" ELSE "stamp"]
  /\ UNCHANGED <<now, output_path, handlerVars, callbackVars, manualVars,
                 pin_shoot, gpio_cleanups>>

\* run, line 93
CaptureStamp(o) ==
  /\ heap[o].th \in {"stamp", "restamp"}
  /\ heap' = [heap EXCEPT ![o].time_of_last_shoot_request = now, ![o].th = "run"]
  /\ UNCHANGED <<now, output_path, handlerVars, callbackVars, manualVars,
                 pin_shoot, gpio_cleanups>>

\* stop_listening, lines 102-122, up to the join: porcupine and the recorder
\* are deleted (errors swallowed); with an output path and recorded frames the
\* audio file is written, and when that write raises (wrote = FALSE) the rest
\* of the function is skipped; otherwise running = False.
HasDebugAudio(o) == output_path /\ heap[o].frames

StopListening(h, o, wrote) ==
  [h EXCEPT ![o].res = IF h[o].res = "live" THEN "deleted" ELSE h[o].res,
            ![o].running = IF h[o].frames /\ output_path /\ ~wrote THEN h[o].running ELSE FALSE,
            ![o].writes = IF h[o].frames /\ output_path /\ wrote
                            THEN (IF h[o].writes < 2 THEN h[o].writes + 1 ELSE 2)
                            ELSE h[o].writes]

WriteRaises(o, wrote) == HasDebugAudio(o) /\ ~wrote

\* the clock
Advance ==
  /\ now < MaxTime
  /\ now' = now + 1
  /\ UNCHANGED <<output_path, heap, handlerVars, callbackVars, manualVars,
                 pin_shoot, gpio_cleanups>>


\* ------------------------------------------------------- MicrophoneHandler

NoSnapshot == [ok |-> TRUE, names |-> <<>>]

RunningPcs == {"cleanup", "cleanup_join", "filter", "discover", "manual",
               "manual_fire", "mics", "mic_fire", "sleep"}

\* the tracked listeners that clean_up_microphones finds not running (line 232)
NotRunning == {o \in Range(microphones) : ~heap[o].running}

\* the sources whose shoot_requested is True among the tracked ones
PendingSources == {o \in Range(microphones) : heap[o].shoot_requested}

Debounced(request_time) ==
  Abs(request_time - time_of_last_shoot_request) >= time_difference_between_shots

\* clean_up_microphones, lines 231-234: the for loop, one listener per step;
\* a listener that is not running is stopped.  An error of the audio write
\* leaves stop_listening and clean_up_microphones and reaches the bare except
\* of run (line 305).
CleanUp ==
  /\ pc = "cleanup"
  /\ IF i > Len(microphones)
       THEN /\ pc' = "filter"
            /\ UNCHANGED <<heap, i>>
       ELSE LET o == microphones[i] IN
            IF heap[o].running
              THEN /\ i' = i + 1
                   /\ UNCHANGED <<heap, pc>>
              ELSE \E wrote \in (IF HasDebugAudio(o) THEN BOOLEAN ELSE {TRUE}) :
                     /\ heap' = StopListening(heap, o, wrote)
                     /\ IF WriteRaises(o, wrote)
                          THEN pc' = "stopping" /\ i' = 1
                          ELSE pc' = "cleanup_join" /\ UNCHANGED i
  /\ UNCHANGED <<now, output_path, microphones, connected_microphones,
                 time_of_last_shoot_request, pin_led_microphone, fires_this_tick,
                 first_pending, dead_at_top, callbackVars, manualVars, pin_shoot, gpio_cleanups>>

\* stop_listening, lines 123-126, called from clean_up_microphones: join returns
\* once the capture thread has ended (without a thread the AttributeError is
\* caught)
CleanUpJoin ==
  /\ pc = "cleanup_join"
  /\ ThreadExited(microphones[i])
  /\ pc' = "cleanup"
  /\ i' = i + 1
  /\ UNCHANGED <<now, output_path, heap, microphones, connected_microphones,
                 time_of_last_shoot_request, pin_led_microphone, fires_this_tick,
                 first_pending, dead_at_top, callbackVars, manualVars, pin_shoot, gpio_cleanups>>

\* clean_up_microphones, line 235: a new list of the listeners that are
\* running now.  A poweroff that is iterating keeps the old list object.
StillRunning(h, ms) == SelectSeq(ms, LAMBDA o : h[o].running)

\* the listeners poweroff may still reach through the list it iterates over
PoweroffRefs(list) == IF cb \in {"po_loop", "po_join"} THEN Range(list) ELSE {}

Filter ==
  /\ pc = "filter"
  /\ LET kept == StillRunning(heap, microphones)
         oldlist == IF po_same THEN microphones ELSE po_list
         gone == {o \in Range(microphones) \ Range(kept) :
                    ThreadExited(o) /\ o \notin PoweroffRefs(oldlist)}
     IN /\ microphones' = kept
        /\ heap' = [o \in 1..Len(heap) |-> IF o \in gone THEN Freed ELSE heap[o]]
        /\ first_pending' = first_pending \ gone
  /\ UNCHANGED dead_at_top
  /\ pc' = "discover"
  /\ IF cb \in {"po_loop", "po_join"} /\ po_same
       THEN po_list' = microphones /\ po_same' = FALSE
       ELSE UNCHANGED <<po_list, po_same>>
  /\ UNCHANGED <<now, output_path, connected_microphones,
                 time_of_last_shoot_request, i, pin_led_microphone, fires_this_tick,
                 cb, j, manualVars, pin_shoot, gpio_cleanups>>

\* check_for_new_microphones, line 246
RegisteredNames(h, ms) == {h[o].input_device_name : o \in Range(ms)}

\* check_for_new_microphones, lines 248-265: the loop over the enumeration.
\* registered is computed once, before the loop; index k-1 is the hardware
\* index of the k-th listed device.
\* the place of a new object: a free one, or a new one at the end
NewId(h) ==
  IF \E k \in 1..Len(h) : h[k].th = "freed"
    THEN CHOOSE k \in 1..Len(h) : h[k].th = "freed" /\ \A m \in 1..(k - 1) : h[m].th # "freed"
    ELSE Len(h) + 1

Allocate(h, obj) ==
  IF NewId(h) <= Len(h) THEN [h EXCEPT ![NewId(h)] = obj] ELSE Append(h, obj)

RECURSIVE CreateListeners(_, _, _, _, _, _)
CreateListeners(k, snap, registered, oc, h, ms) ==
  IF k > Len(snap)
    THEN [heap |-> h, microphones |-> ms]
    ELSE IF IsVirtual(snap[k]) \/ snap[k] \in registered
      THEN CreateListeners(k + 1, snap, registered, oc, h, ms)
      ELSE CreateListeners(k + 1, snap, registered, oc,
                           Allocate(h, NewListener(snap[k], k - 1, oc[k])),
                           Append(ms, NewId(h)))

check_for_new_microphones(snap, oc) ==
  CreateListeners(1, snap, RegisteredNames(heap, microphones), oc, heap, microphones)

\* run, lines 286-289: the microphone LED follows the length of the list.
\* GPIO.output raises once GPIO.cleanup() has run (poweroff), which reaches the
\* bare except of run.
LedStep(ms) ==
  IF gpio_cleanups > 0
    THEN pc' = "stopping" /\ i' = 1 /\ UNCHANGED pin_led_microphone
    ELSE /\ pc' = "manual"
         /\ pin_led_microphone' = (IF Len(ms) > 0 THEN 1 ELSE 0)
         /\ UNCHANGED i

\* run, lines 285-289, when PvRecorder.get_audio_devices() answers with one
\* of snaps and the constructors end as oc says
Discover(snaps, outcomes) ==
  /\ pc = "discover"
  /\ \E snap \in snaps : \E oc \in [1..Len(snap) -> outcomes] :
       LET r == check_for_new_microphones(snap, oc) IN
       /\ Len(r.heap) <= MaxObjs
       /\ connected_microphones' = [ok |-> TRUE, names |-> snap]
       /\ heap' = r.heap
       /\ microphones' = r.microphones
       /\ LedStep(r.microphones)
  /\ dead_at_top' = {}
  /\ UNCHANGED <<now, output_path, time_of_last_shoot_request, fires_this_tick,
                 first_pending, callbackVars, manualVars, pin_shoot, gpio_cleanups>>

\* A faulty check_for_new_microphones without the try of lines 241-245: the
\* error of the enumeration reaches the bare except of run.
DiscoverFailsUncaught ==
  /\ pc = "discover"
  /\ connected_microphones' = [ok |-> FALSE, names |-> <<>>]
  /\ pc' = "stopping"
  /\ i' = 1
  /\ dead_at_top' = {}
  /\ UNCHANGED <<now, output_path, heap, microphones, time_of_last_shoot_request,
                 pin_led_microphone, fires_this_tick, first_pending, callbackVars,
                 manualVars, pin_shoot, gpio_cleanups>>

\* run, lines 285-289, when PvRecorder.get_audio_devices() raises (lines
\* 243-245): nothing is created
DiscoverFails ==
  /\ pc = "discover"
  /\ connected_microphones' = [ok |-> FALSE, names |-> <<>>]
  /\ LedStep(microphones)
  /\ dead_at_top' = {}
  /\ UNCHANGED <<now, output_path, heap, microphones, time_of_last_shoot_request,
                 fires_this_tick, first_pending, callbackVars, manualVars, pin_shoot,
                 gpio_cleanups>>

\* run, lines 290-294 up to the sleep inside fire(): the manual request is
\* read; when it is debounced, time_of_last_shoot_request = time.time() and
\* fire() raises the outputs (lines 272-273).
Manual ==
  /\ pc = "manual"
  /\ connected_microphones' = NoSnapshot
  /\ IF ~manual_shoot_request
       THEN /\ pc' = "mics" /\ i' = 1
            /\ UNCHANGED <<time_of_last_shoot_request, fires_this_tick, pin_shoot,
                           manual_shoot_request, manual_pressed_at>>
       ELSE IF Debounced(time_of_last_manual_shoot_request)
         THEN /\ time_of_last_shoot_request' = now
              /\ fires_this_tick' = fires_this_tick + 1
              /\ IF gpio_cleanups > 0
                   THEN pc' = "stopping" /\ i' = 1 /\ UNCHANGED pin_shoot
                   ELSE pc' = "manual_fire" /\ pin_shoot' = 1 /\ UNCHANGED i
              /\ UNCHANGED <<manual_shoot_request, manual_pressed_at>>
         ELSE /\ manual_shoot_request' = FALSE
              /\ manual_pressed_at' = 0
              /\ pc' = "mics" /\ i' = 1
              /\ UNCHANGED <<time_of_last_shoot_request, fires_this_tick, pin_shoot>>
  /\ UNCHANGED <<now, output_path, heap, microphones, pin_led_microphone, first_pending, dead_at_top,
                 time_of_last_manual_shoot_request, callbackVars, gpio_cleanups>>

\* fire(), lines 274-276, then run, line 294: the pulse has been held, the
\* outputs are lowered and the manual request is cleared
ManualFireEnd ==
  /\ pc = "manual_fire"
  /\ now >= time_of_last_shoot_request + PulseHold
  /\ IF gpio_cleanups > 0
       THEN /\ pc' = "stopping" /\ i' = 1
            /\ UNCHANGED <<pin_shoot, manual_shoot_request, manual_pressed_at>>
       ELSE /\ pin_shoot' = 0
            /\ manual_shoot_request' = FALSE
            /\ manual_pressed_at' = 0
            /\ pc' = "mics" /\ i' = 1
  /\ UNCHANGED <<now, output_path, heap, microphones, connected_microphones,
                 time_of_last_shoot_request, pin_led_microphone, fires_this_tick,
                 first_pending, dead_at_top, time_of_last_manual_shoot_request, callbackVars,
                 gpio_cleanups>>

\* run, lines 295-300 up to the sleep inside fire(), for the listener at i
MicCheck ==
  /\ pc = "mics"
  /\ IF i > Len(microphones)
       THEN /\ pc' = "sleep"
            /\ UNCHANGED <<heap, i, time_of_last_shoot_request, fires_this_tick, pin_shoot>>
       ELSE LET o == microphones[i] IN
            IF ~heap[o].shoot_requested
              THEN /\ i' = i + 1
                   /\ UNCHANGED <<heap, pc, time_of_last_shoot_request, fires_this_tick,
                                  pin_shoot>>
              ELSE IF Debounced(heap[o].time_of_last_shoot_request)
                THEN /\ time_of_last_shoot_request' = now
                     /\ fires_this_tick' = fires_this_tick + 1
                     /\ IF gpio_cleanups > 0
                          THEN pc' = "stopping" /\ i' = 1 /\ UNCHANGED pin_shoot
                          ELSE pc' = "mic_fire" /\ pin_shoot' = 1 /\ UNCHANGED i
                     /\ UNCHANGED heap
                ELSE /\ heap' = [heap EXCEPT ![o].shoot_requested = FALSE]
                     /\ i' = i + 1
                     /\ UNCHANGED <<pc, time_of_last_shoot_request, fires_this_tick,
                                    pin_shoot>>
  /\ UNCHANGED <<now, output_path, microphones, connected_microphones,
                 pin_led_microphone, first_pending, dead_at_top, callbackVars, manualVars, gpio_cleanups>>

\* fire(), lines 274-276, then run, line 300
MicFireEnd ==
  /\ pc = "mic_fire"
  /\ now >= time_of_last_shoot_request + PulseHold
  /\ IF gpio_cleanups > 0
       THEN pc' = "stopping" /\ i' = 1 /\ UNCHANGED <<pin_shoot, heap>>
       ELSE /\ pin_shoot' = 0
            /\ heap' = [heap EXCEPT ![microphones[i]].shoot_requested = FALSE]
            /\ pc' = "mics" /\ i' = i + 1
  /\ UNCHANGED <<now, output_path, microphones, connected_microphones,
                 time_of_last_shoot_request, pin_led_microphone, fires_this_tick,
                 first_pending, dead_at_top, callbackVars, manualVars, gpio_cleanups>>

\* run, line 301 and back to line 282: the next iteration starts
Sleep ==
  /\ pc = "sleep"
  /\ pc' = "cleanup"
  /\ i' = 1
  /\ fires_this_tick' = 0
  /\ first_pending' = IF time_of_last_shoot_request = 0 THEN PendingSources ELSE {}
  /\ dead_at_top' = {<<o, heap[o].input_device_name>> : o \in NotRunning}
  /\ UNCHANGED <<now, output_path, heap, microphones, connected_microphones,
                 time_of_last_shoot_request, pin_led_microphone, callbackVars,
                 manualVars, pin_shoot, gpio_cleanups>>

\* KeyboardInterrupt in the main thread, lines 302-304.  While the main thread
\* waits in the join of stop_listening (called from clean_up_microphones or
\* from the loop of lines 308-312) the bare except of line 125 catches it: the
\* join is abandoned, stop_listening returns and its caller goes on.
Interrupt ==
  /\ pc \in RunningPcs \cup {"stop_join"}
  /\ IF pc \in {"cleanup_join", "stop_join"}
       THEN /\ pc' = (IF pc = "cleanup_join" THEN "cleanup" ELSE "stopping")
            /\ i' = i + 1
       ELSE pc' = "stopping" /\ i' = 1
  /\ UNCHANGED <<now, output_path, heap, microphones, connected_microphones,
                 time_of_last_shoot_request, pin_led_microphone, fires_this_tick,
                 first_pending, dead_at_top, callbackVars, manualVars, pin_shoot, gpio_cleanups>>

\* run, lines 308-313: every listener of the list is stopped, an error of one
\* stop_listening is caught (line 311), then GPIO.cleanup()
Stopping ==
  /\ pc = "stopping"
  /\ IF i > Len(microphones)
       THEN /\ gpio_cleanups' = gpio_cleanups + 1
            /\ pin_shoot' = 0
            /\ pin_led_microphone' = 0
            /\ pc' = "stopped"
            /\ UNCHANGED <<heap, i>>
       ELSE LET o == microphones[i] IN
            \E wrote \in (IF HasDebugAudio(o) THEN BOOLEAN ELSE {TRUE}) :
              /\ heap' = StopListening(heap, o, wrote)
              /\ IF WriteRaises(o, wrote)
                   THEN i' = i + 1 /\ UNCHANGED pc
                   ELSE pc' = "stop_join" /\ UNCHANGED i
              /\ UNCHANGED <<gpio_cleanups, pin_shoot, pin_led_microphone>>
  /\ UNCHANGED <<now, output_path, microphones, connected_microphones,
                 time_of_last_shoot_request, fires_this_tick, first_pending, dead_at_top,
                 callbackVars, manualVars>>

StopJoin ==
  /\ pc = "stop_join"
  /\ ThreadExited(microphones[i])
  /\ pc' = "stopping"
  /\ i' = i + 1
  /\ UNCHANGED <<now, output_path, heap, microphones, connected_microphones,
                 time_of_last_shoot_request, pin_led_microphone, fires_this_tick,
                 first_pending, dead_at_top, callbackVars, manualVars, pin_shoot, gpio_cleanups>>

\* ------------------------------------------------------- the GPIO callbacks

\* manual_shoot_request, line 224 (the callback thread runs one callback at
\* a time; the event detection ends with GPIO.cleanup()).  "m_stamp" is the
\* position before line 225 when the flag was False before line 224.
ManualPress ==
  /\ cb = "idle"
  /\ gpio_cleanups = 0
  /\ manual_shoot_request' = TRUE
  /\ manual_pressed_at' = IF manual_shoot_request THEN manual_pressed_at ELSE now
  /\ cb' = IF manual_shoot_request THEN "m_restamp" ELSE "m_stamp"
  /\ UNCHANGED <<now, output_path, heap, handlerVars, j, po_list, po_same,
                 time_of_last_manual_shoot_request, pin_shoot, gpio_cleanups>>

\* manual_shoot_request, line 225
ManualStamp ==
  /\ cb \in {"m_stamp", "m_restamp"}
  /\ time_of_last_manual_shoot_request' = now
  /\ cb' = "idle"
  /\ UNCHANGED <<now, output_path, heap, handlerVars, j, po_list, po_same,
                 manual_shoot_request, manual_pressed_at, pin_shoot, gpio_cleanups>>

\* poweroff, line 213: the for loop starts on the current list object
PoweroffStart ==
  /\ cb = "idle"
  /\ gpio_cleanups = 0
  /\ cb' = "po_loop"
  /\ j' = 1
  /\ po_same' = TRUE
  /\ po_list' = <<>>
  /\ UNCHANGED <<now, output_path, heap, handlerVars, manualVars, pin_shoot,
                 gpio_cleanups>>

PoweroffList == IF po_same THEN microphones ELSE po_list

\* poweroff, lines 213-217, one listener per step: a running listener is
\* stopped; after the loop GPIO.cleanup() and the shutdown command.  An error
\* of the audio write ends the callback.
Poweroff ==
  /\ cb = "po_loop"
  /\ IF j > Len(PoweroffList)
       THEN /\ gpio_cleanups' = gpio_cleanups + 1
            /\ pin_shoot' = 0
            /\ pin_led_microphone' = 0
            /\ cb' = "po_done"
            /\ UNCHANGED <<heap, j>>
       ELSE LET o == PoweroffList[j] IN
            IF ~heap[o].running
              THEN /\ j' = j + 1
                   /\ UNCHANGED <<heap, cb, gpio_cleanups, pin_shoot, pin_led_microphone>>
              ELSE \E wrote \in (IF HasDebugAudio(o) THEN BOOLEAN ELSE {TRUE}) :
                     /\ heap' = StopListening(heap, o, wrote)
                     /\ cb' = IF WriteRaises(o, wrote) THEN "idle" ELSE "po_join"
                     /\ UNCHANGED <<j, gpio_cleanups, pin_shoot, pin_led_microphone>>
  /\ UNCHANGED <<now, output_path, microphones, connected_microphones,
                 time_of_last_shoot_request, pc, i, fires_this_tick, first_pending, dead_at_top,
                 po_list, po_same, manualVars>>

\* stop_listening, lines 123-126, called from poweroff
PoweroffJoin ==
  /\ cb = "po_join"
  /\ ThreadExited(PoweroffList[j])
  /\ cb' = "po_loop"
  /\ j' = j + 1
  /\ UNCHANGED <<now, output_path, heap, handlerVars, po_list, po_same, manualVars,
                 pin_shoot, gpio_cleanups>>

\* ------------------------------------------------------------ specification

Init ==
  /\ now \in StartTime..MaxTime
  /\ output_path \in BOOLEAN
  /\ heap = <<>>
  /\ microphones = <<>>
  /\ connected_microphones = NoSnapshot
  /\ manual_shoot_request = FALSE
  /\ time_of_last_manual_shoot_request = 0
  /\ manual_pressed_at = 0
  /\ time_of_last_shoot_request = 0
  /\ pc = "cleanup"
  /\ i = 1
  /\ cb = "idle"
  /\ j = 1
  /\ po_list = <<>>
  /\ po_same = TRUE
  /\ pin_shoot = 0
  /\ pin_led_microphone = 0
  /\ gpio_cleanups = 0
  /\ fires_this_tick = 0
  /\ first_pending = {}
  /\ dead_at_top = {}

Tick ==
  \/ CleanUp
  \/ Filter
  \/ Manual
  \/ MicCheck
  \/ Sleep

\* The debounce and the fire: two microphones that stay plugged in, no audio
\* file, the manual button, detections and the clock.
StableSnapshots == {<<"micA", "micB">>}

InitFire == Init /\ now = StartTime /\ ~output_path

NextFire ==
  \/ Tick
  \/ Discover(StableSnapshots, {"ok"})
  \/ ManualFireEnd
  \/ MicFireEnd
  \/ Advance
  \/ ManualPress
  \/ ManualStamp
  \/ \E o \in 1..Len(heap) : CaptureDetect(o) \/ CaptureStamp(o)

SpecFire == InitFire /\ [][NextFire]_vars

\* The registry: any enumeration, constructors that fail and capture loops that
\* fail; no audio file, no detection, no button.
NextRegistry ==
  \/ Tick
  \/ CleanUpJoin
  \/ Discover(Snapshots, Outcomes)
  \/ DiscoverFails
  \/ \E o \in 1..Len(heap) : CaptureReadFails(o) \/ CaptureFrame(o)

InitRegistry == Init /\ now = StartTime /\ ~output_path

SpecRegistry == InitRegistry /\ [][NextRegistry]_vars

\* The shutdown: one microphone that stays plugged in; detections, the manual
\* button, the audio file, poweroff, the interrupt and the shutdown of run.
OneMicrophone == {<<"micA">>}

NextShutdown ==
  \/ Tick
  \/ CleanUpJoin
  \/ Discover(OneMicrophone, {"ok"})
  \/ ManualFireEnd
  \/ MicFireEnd
  \/ Advance
  \/ ManualPress
  \/ ManualStamp
  \/ \E o \in 1..Len(heap) :
       CaptureExit(o) \/ CaptureReadFails(o) \/ CaptureFrame(o) \/ CaptureDetect(o)
         \/ CaptureStamp(o)
  \/ PoweroffStart
  \/ Poweroff
  \/ PoweroffJoin
  \/ Interrupt
  \/ Stopping
  \/ StopJoin

\* the clock is started one pulse before its bound
InitShutdown == Init /\ now = MaxTime - PulseHold

SpecShutdown == InitShutdown /\ [][NextShutdown]_vars

\* The teardown: two microphones, the audio file is recorded, capture loops
\* fail and the audio write may raise; no button and no interrupt, so run
\* leaves its loop only through its own errors.
NextTeardown ==
  \/ Tick
  \/ CleanUpJoin
  \/ Discover(StableSnapshots, {"ok"})
  \/ \E o \in 1..Len(heap) : CaptureExit(o) \/ CaptureReadFails(o) \/ CaptureFrame(o)
  \/ Stopping
  \/ StopJoin

InitTeardown == Init /\ now = StartTime /\ output_path

SpecTeardown == InitTeardown /\ [][NextTeardown]_vars

\* ------------------------------------------------------------------ claims

\* a step of run that calls fire()
FireCalled == fires_this_tick' = fires_this_tick + 1

\* a shot was fired before (the clock never reads 0)
FiredBefore == time_of_last_shoot_request # 0

\* C1: any two consecutive fires have fire times at least
\* time_difference_between_shots apart.
C1_ConsecutiveFiresApart ==
  [][(FireCalled /\ FiredBefore) =>
       time_of_last_shoot_request' - time_of_last_shoot_request
         >= time_difference_between_shots]_vars

\* the step of run that reads a pending manual request (lines 290-291)
ManualConsumed ==
  /\ pc = "manual"
  /\ manual_shoot_request
  /\ pc' \in {"manual_fire", "mics"}

\* C2: the tick that consumes a manual trigger fires it exactly when the
\* trigger occurred at least time_difference_between_shots after the most
\* recent fire (with no prior fire it fires).
C2_ManualFiresIffOutsideWindow ==
  [][ManualConsumed =>
       (FireCalled <=>
          (~FiredBefore \/ manual_pressed_at - time_of_last_shoot_request
                             >= time_difference_between_shots))]_vars

\* C3: fire() is called at most once in one iteration of run.
C3_OneFirePerTick == fires_this_tick <= 1

\* C4: when two tracked sources are pending at the top of an iteration and
\* no shot was fired before, exactly one fire occurs in that iteration and
\* both flags are cleared at its end.
C4_TwoPendingOneFire ==
  (pc = "sleep" /\ Cardinality(first_pending) = 2) =>
    /\ fires_this_tick = 1
    /\ \A o \in first_pending : ~heap[o].shoot_requested

\* the step of run that reads shoot_requested = True of the listener at i
\* (lines 296-297)
SourceConsumed ==
  /\ pc = "mics"
  /\ i <= Len(microphones)
  /\ heap[microphones[i]].shoot_requested
  /\ (pc' = "mic_fire" \/ i' = i + 1)

\* C5: whenever run reads a pending flag as True, the timestamp it reads was
\* written by the detection (or the button callback) that set the flag.
C5_NoTornRead ==
  [][/\ SourceConsumed => heap[microphones[i]].th # "stamp"
     /\ ManualConsumed => cb # "m_stamp"]_vars

\* the devices line 249 of check_for_new_microphones excludes
VirtualDevices == MonitorNames \cup WellKnownNames

ListedNames == {n \in Range(connected_microphones.names) : n \notin VirtualDevices}

TrackedNames == {heap[o].input_device_name : o \in Range(microphones)}

C7_UniqueNames ==
  \A a, b \in 1..Len(microphones) :
    heap[microphones[a]].input_device_name = heap[microphones[b]].input_device_name
      => a = b

\* C8: a source that is not alive when the refresh filters the list has been
\* torn down (its detector and recorder released) and leaves the registry.
C8_DeadSourceTornDownAndRemoved ==
  [][(pc = "filter" /\ pc' = "discover") =>
       \A o \in Range(microphones) :
         ~heap[o].running => (o \notin Range(microphones') /\ heap[o].res # "live")]_vars

\* the coordinator has left RUNNING: run is past its loop, or poweroff has
\* started
ShutdownBegun == pc \notin RunningPcs \/ cb \in {"po_loop", "po_join", "po_done"}

\* C9: fire() is never called once the shutdown has begun.
C9_NoFireAfterShutdownBegan == [][FireCalled => ~ShutdownBegun]_vars

\* C10: when run has ended, every tracked source is torn down (running =
\* False, capture thread ended) and GPIO.cleanup() has been called.
C10_StoppedMeansTornDown ==
  pc = "stopped" =>
    /\ gpio_cleanups >= 1
    /\ \A o \in Range(microphones) : ~heap[o].running /\ ThreadExited(o)

\* C11: GPIO.cleanup() is called exactly once, when run ends, and never
\* while run is still in its loop.
C11_GpioReleasedOnceAtStop ==
  gpio_cleanups = (IF pc = "stopped" THEN 1 ELSE 0)

\* the detection behind the pending flag of the listener at i qualifies: no
\* shot was fired before it, or its recorded time is at least
\* time_difference_between_shots after the last fire
DetectionQualifies ==
  \/ ~FiredBefore
  \/ /\ heap[microphones[i]].th = "run"
     /\ heap[microphones[i]].time_of_last_shoot_request - time_of_last_shoot_request
          >= time_difference_between_shots

\* C12: the iteration of run that consumes the pending flag of a qualifying
\* detection fires (unless it has fired already); the flag is not cleared
\* without a fire.
C12_QualifyingTriggerFires ==
  [][(SourceConsumed /\ DetectionQualifies /\ fires_this_tick = 0) => FireCalled]_vars

\* a step of the GPIO callback thread
CallbackStep == cb' # cb \/ j' # j

\* C13: the button callbacks only record their request: no step of the
\* callback thread changes a listener, the list of listeners or an output
\* pin, calls GPIO.cleanup() or waits for a capture thread.
C13_CallbacksOnlyRecordRequests ==
  [][CallbackStep =>
       /\ heap' = heap
       /\ microphones' = microphones
       /\ pin_shoot' = pin_shoot
       /\ pin_led_microphone' = pin_led_microphone
       /\ gpio_cleanups' = gpio_cleanups
       /\ cb' # "po_join"]_vars

\* the step of clean_up_microphones that calls stop_listening for the
\* listener at i (lines 232-234)
StopCalledFromCleanUp ==
  /\ pc = "cleanup"
  /\ i <= Len(microphones)
  /\ ~heap[microphones[i]].running
  /\ pc' # "cleanup"

\* C14: a stop_listening called from clean_up_microphones completes also when
\* the audio file cannot be written: run goes on to the join of the capture
\* thread and stays in its loop.
C14_WriteFailureNotFatal ==
  [][StopCalledFromCleanUp => pc' = "cleanup_join"]_vars

\* the listeners whose constructor failed: they never had a capture thread
NeverAlive == {o \in 1..Len(heap) : heap[o].th = "none"}

\* C15: after a refresh no listener whose construction failed is in the list
\* of listeners.
C15_FailedConstructionNotRetained ==
  pc = "manual" => Range(microphones) \cap NeverAlive = {}

\* the places in the list of listeners that hold a listener named n
PlacesNamed(h, ms, n) == {k \in 1..Len(ms) : h[ms[k]].input_device_name = n}

\* C16: when the refresh ends, every listener that was not running at the
\* top of the iteration has been stopped and has left the list before the
\* enumeration was compared; when its device name is listed, exactly one
\* listener of that name is tracked, created by this refresh with the
\* hardware index of the listed device.
C16_RetiredThenRebuilt ==
  [][(pc = "discover" /\ pc' = "manual") =>
       \A d \in dead_at_top :
         /\ d[1] \notin Range(microphones)
         /\ heap[d[1]].res # "live"
         /\ d[2] \in ListedNames' =>
              LET S == PlacesNamed(heap', microphones', d[2]) IN
              /\ Cardinality(S) = 1
              /\ \A k \in S :
                   /\ k > Len(microphones)
                   /\ connected_microphones'.names[
                        heap'[microphones'[k]].input_device_index + 1] = d[2]]_vars

\* the step at which a stop_listening called by run returns: the join of
\* line 124 has ended
StopReturnsToRun == pc \in {"cleanup_join", "stop_join"} /\ pc' # pc

\* the step at which a stop_listening called by poweroff returns
StopReturnsToPoweroff == cb = "po_join" /\ cb' # cb

\* C17: when stop_listening returns, the capture thread of its listener has
\* ended (an ended thread takes no further step, so it changes nothing of the
\* listener afterwards).
C17_ThreadExitedWhenStopReturns ==
  [][/\ StopReturnsToRun => ThreadExited(microphones[i])
     /\ StopReturnsToPoweroff => ThreadExited(PoweroffList[j])]_vars

\* run is inside fire(), in the sleep of line 274
PulseHeld == pc \in {"manual_fire", "mic_fire"}

\* C18: a step that decides to fire sets time_of_last_shoot_request to the
\* clock and raises the fire output, which was low, for the hold of fire();
\* the output is high only while run is inside that hold.
C18_FirePulse ==
  [][/\ FireCalled =>
          /\ pin_shoot = 0
          /\ time_of_last_shoot_request' = now
          /\ pin_shoot' = 1
          /\ PulseHeld'
     /\ pin_shoot' = 1 => PulseHeld']_vars

\* C19: a second stop_listening of the same listener changes nothing: in
\* particular the audio file of a listener is written at most once (writes
\* counts the completed writes of lines 114-120; the other fields a second
\* call assigns already have their values).
C19_StopListeningIdempotent == \A o \in 1..Len(heap) : heap[o].writes <= 1

\* the step of run in which PvRecorder.get_audio_devices() raises
EnumerationFails == pc = "discover" /\ ~connected_microphones'.ok

\* C20: when the enumeration fails, check_for_new_microphones creates
\* nothing and leaves the list of listeners and every listener as they were,
\* and run goes on with its iteration (so the next iteration enumerates
\* again).
C20_EnumerationFailureSkipsDiscovery ==
  [][EnumerationFails =>
       /\ heap' = heap
       /\ microphones' = microphones
       /\ pc' = "manual"]_vars

\* C20, witness: the enumeration has just failed while a listener is tracked
C20_FailedWithTrackedSource ==
  /\ pc = "manual"
  /\ ~connected_microphones.ok
  /\ \E o \in Range(microphones) : heap[o].running

====
